---- MODULE Spec2Model ----
(***************************************************************************)
(* A model of pygama/io/orca_helper.py: the ORCA packet reader             *)
(* (get_next_packet) and the header-dictionary helpers                      *)
(* (get_run_number, flip_data_ids, get_id_to_decoder_name_dict,             *)
(* get_object_info, OrcaDecoder.set_header_dict and set_object_info).       *)
(***************************************************************************)
EXTENDS Integers, Sequences, FiniteSets, TLC

VARIABLES
    big_endian,   \* sys.byteorder of the host: np.uint32 is native-endian
    stream_kind,  \* the kind of file object f_in is
    stream,       \* the bytes of f_in
    pos,          \* the read cursor of f_in
    packets,      \* the (event_data, data_id) pairs returned so far, in order
    header_dict,  \* the parsed header (mutable Python dicts and lists)
    decoder,      \* one OrcaDecoder object
    ret           \* outcome of the last call: return value, exception, prints

vars == <<big_endian, stream_kind, stream, pos, packets, header_dict, decoder, ret>>

(***************************************************************************)
(* Bounds of the model.                                                    *)
(***************************************************************************)
MaxWords == 3
MaxTail == 3

(***************************************************************************)
(* Helpers.                                                                *)
(***************************************************************************)
Min(a, b) == IF a < b THEN a ELSE b

Pow2(n) == 2 ^ n

\* A uint32 is its 32 bits, least significant first.
WordBits == 32

\* x < 2^31
BitsOf(x, n) == [i \in 1..n |-> IF i > 31 THEN 0 ELSE (x \div Pow2(i - 1)) % 2]

RECURSIVE BitsValue(_, _)
BitsValue(bits, i) ==
    IF i > Len(bits) THEN 0 ELSE bits[i] + 2 * BitsValue(bits, i + 1)

BitAnd(a, b) == [i \in 1..Len(a) |-> a[i] * b[i]]

ShiftRight(a, n) == [i \in 1..Len(a) |-> IF i + n <= Len(a) THEN a[i + n] ELSE 0]

Reverse(s) == [i \in 1..Len(s) |-> s[Len(s) + 1 - i]]

(***************************************************************************)
(* Outcomes of a call.                                                     *)
(***************************************************************************)
Returned(fn, value, printed) ==
    [fn |-> fn, arg |-> "none", raised |-> "none", value |-> value,
     printed |-> printed]

Raised(fn, exc, printed) ==
    [fn |-> fn, arg |-> "none", raised |-> exc, value |-> <<>>,
     printed |-> printed]

NoCall == Returned("none", <<>>, <<>>)

(***************************************************************************)
(* The packet stream.                                                      *)
(***************************************************************************)
\* f_in.read(n) at cursor p: at most n bytes, fewer at the end of the file,
\* no exception on a short read.  A negative n other than -1 is rejected by
\* io.BufferedReader (ValueError) and means "read to the end" for the other
\* file objects (io.BytesIO, io.FileIO, gzip files, Python 2 files).
StreamKinds == {"BufferedReader", "BytesIO"}

ReadRaises(kind, n) == kind = "BufferedReader" /\ n < -1

ReadBytes(s, p, n) ==
    IF n < 0 THEN SubSeq(s, p + 1, Len(s))
    ELSE SubSeq(s, p + 1, Min(p + n, Len(s)))

\* np.fromstring(b, dtype=np.uint32): a native-endian array of Len(b)/4
\* words; ValueError when Len(b) is not a multiple of 4; an empty array for
\* an empty string.  b holds at most 4 bytes here.
FromStringRaises(b) == Len(b) % 4 # 0

ByteBits(b) ==
    [i \in 1..(8 * Len(b)) |-> (b[((i - 1) \div 8) + 1] \div Pow2((i - 1) % 8)) % 2]

FromString(b, be) ==
    IF Len(b) = 0 THEN <<>> ELSE <<ByteBits(IF be THEN Reverse(b) ELSE b)>>

LengthMask == 262143
IdShift == 18

\* int(head[0] & 0x3FFFF)
RecordLength(word) == BitsValue(BitAnd(word, BitsOf(LengthMask, WordBits)), 1)

DataIdShift16(word) == BitsValue(ShiftRight(word, 16), 1)

\* int(head[0] >> 18)
DataId(word) == BitsValue(ShiftRight(word, IdShift), 1)

PayloadSize(record_length) == record_length * 4 - 4

\* get_next_packet(f_in): the outcome and the cursor it leaves.
GetNextPacketResult(kind, s, p, be) ==
    LET hb == ReadBytes(s, p, 4)
        p1 == p + Len(hb)
    IN  IF FromStringRaises(hb)
        THEN [pos |-> p1,
              ret |-> Raised("get_next_packet", "Exception",
                             <<"string size must be a multiple of element size">>)]
        ELSE LET head == FromString(hb, be)
             IN  IF Len(head) = 0
                 THEN [pos |-> p1,
                       ret |-> Raised("get_next_packet", "IndexError", <<>>)]
                 ELSE LET record_length == RecordLength(head[1])
                          data_id == DataId(head[1])
                          n == PayloadSize(record_length)
                      IN  IF ReadRaises(kind, n)
                          THEN [pos |-> p1,
                                ret |-> Raised("get_next_packet", "EOFError",
                                    <<"  No more data...\n",
                                      "read length must be non-negative or -1">>)]
                          ELSE LET event_data == ReadBytes(s, p1, n)
                               IN  [pos |-> p1 + Len(event_data),
                                    ret |-> Returned("get_next_packet",
                                                     <<event_data, data_id>>, <<>>)]

GetNextPacket ==
    LET r == GetNextPacketResult(stream_kind, stream, pos, big_endian)
    IN  /\ pos' = r.pos
        /\ ret' = r.ret
        /\ packets' = IF r.ret.raised = "none"
                      THEN Append(packets, r.ret.value)
                      ELSE packets
        /\ UNCHANGED <<big_endian, stream_kind, stream, header_dict, decoder>>

(***************************************************************************)
(* The header dictionary.  A Python dict whose iteration order matters     *)
(* (dataDescription and its classes) is a sequence of [key, val] items in  *)
(* insertion order with distinct keys; the other dicts are functions from  *)
(* their keys.                                                             *)
(***************************************************************************)
SetItem(d, k, v) == (k :> v) @@ d

\* dd[class_key][super_key]['dataId'] >> 18
LeafId(leaf) == leaf.dataId \div Pow2(IdShift)

\* get_run_number(header_dict)
RECURSIVE ScanDataChain(_, _)
ScanDataChain(chain, i) ==
    IF i > Len(chain)
    THEN Raised("get_run_number", "ValueError", <<>>)
    ELSE IF "Run Control" \in DOMAIN chain[i]
         THEN Returned("get_run_number", chain[i]["Run Control"].RunNumber, <<>>)
         ELSE ScanDataChain(chain, i + 1)

RECURSIVE ScanDataChainBack(_, _)
ScanDataChainBack(chain, i) ==
    IF i < 1
    THEN Raised("get_run_number", "ValueError", <<>>)
    ELSE IF "Run Control" \in DOMAIN chain[i]
         THEN Returned("get_run_number", chain[i]["Run Control"].RunNumber, <<>>)
         ELSE ScanDataChainBack(chain, i - 1)

get_run_number_last(h) ==
    ScanDataChainBack(h.ObjectInfo.DataChain, Len(h.ObjectInfo.DataChain))

get_run_number(h) == ScanDataChain(h.ObjectInfo.DataChain, 1)

\* flip_data_ids(header_dict).  super_keys_list is one list object per
\* class: heap[ref] is its content, and flipped[ID_val] holds what
\* StoreList puts there, the reference to it.
StoreListCopy(ref, heap) == [copy |-> heap[ref]]

StoreList(ref, heap) == [ref |-> ref]

LoadList(cell, heap) ==
    IF "ref" \in DOMAIN cell THEN heap[cell.ref] ELSE cell.copy

RECURSIVE FlipSupers(_, _, _, _, _)
FlipSupers(class_key, ref, supers, i, st) ==
    IF i > Len(supers) THEN st
    ELSE LET heap1 == [st.heap EXCEPT ![ref] = Append(@, supers[i].key)]
             ID_val == LeafId(supers[i].val)
             flipped1 == SetItem(st.flipped, ID_val,
                                 <<class_key, StoreList(ref, heap1)>>)
         IN  FlipSupers(class_key, ref, supers, i + 1,
                        [flipped |-> flipped1, heap |-> heap1])

RECURSIVE FlipClasses(_, _, _)
FlipClasses(dd, c, st) ==
    IF c > Len(dd) THEN st
    ELSE FlipClasses(dd, c + 1,
             FlipSupers(dd[c].key, c, dd[c].val, 1,
                        [st EXCEPT !.heap = SetItem(st.heap, c, <<>>)]))

flip_data_ids(h) ==
    LET st == FlipClasses(h.dataDescription, 1, [flipped |-> <<>>, heap |-> <<>>])
    IN  Returned("flip_data_ids",
                 [id \in DOMAIN st.flipped |->
                     <<st.flipped[id][1], LoadList(st.flipped[id][2], st.heap)>>],
                 <<>>)

\* get_id_to_decoder_name_dict(header_dict)
StoreDecoderKeepFirst(id2dn_dict, dataID, decoder_name) ==
    IF dataID \in DOMAIN id2dn_dict THEN id2dn_dict
    ELSE SetItem(id2dn_dict, dataID, decoder_name)

\* id2dn_dict[dataID] = decoder_name
StoreDecoder(id2dn_dict, dataID, decoder_name) ==
    SetItem(id2dn_dict, dataID, decoder_name)

RECURSIVE DecoderSupers(_, _, _)
DecoderSupers(supers, i, id2dn_dict) ==
    IF i > Len(supers) THEN id2dn_dict
    ELSE DecoderSupers(supers, i + 1,
             StoreDecoder(id2dn_dict, LeafId(supers[i].val), supers[i].val.decoder))

RECURSIVE DecoderClasses(_, _, _)
DecoderClasses(dd, c, id2dn_dict) ==
    IF c > Len(dd) THEN id2dn_dict
    ELSE DecoderClasses(dd, c + 1, DecoderSupers(dd[c].val, 1, id2dn_dict))

get_id_to_decoder_name_dict(h) ==
    Returned("get_id_to_decoder_name_dict",
             DecoderClasses(h.dataDescription, 1, <<>>), <<>>)

\* get_object_info(header_dict, orca_class_name): card["Crate"] = ... is an
\* assignment into the card dict of the header itself, and the list returned
\* holds those same dicts.  No later assignment changes a card once it is in
\* a returned list (a later call stores the same crate number again), so the
\* cards of the list are kept by value.
CardMatches(card, orca_class_name) == card["Class Name"] = orca_class_name

StampCardSlot(card, crate) == SetItem(card, "Crate", card["Card"])

\* card["Crate"] = crate["CrateNumber"]
StampCard(card, crate) == SetItem(card, "Crate", crate.CrateNumber)

StampCrate(crate, orca_class_name) ==
    [crate EXCEPT !.Cards =
        [i \in 1..Len(crate.Cards) |->
            IF CardMatches(crate.Cards[i], orca_class_name)
            THEN StampCard(crate.Cards[i], crate)
            ELSE crate.Cards[i]]]

RECURSIVE CollectCards(_, _, _, _)
CollectCards(crate, orca_class_name, i, object_info_list) ==
    IF i > Len(crate.Cards) THEN object_info_list
    ELSE CollectCards(crate, orca_class_name, i + 1,
             IF CardMatches(crate.Cards[i], orca_class_name)
             THEN Append(object_info_list, StampCard(crate.Cards[i], crate))
             ELSE object_info_list)

RECURSIVE CollectCrates(_, _, _, _)
CollectCrates(crates, orca_class_name, c, object_info_list) ==
    IF c > Len(crates) THEN object_info_list
    ELSE CollectCrates(crates, orca_class_name, c + 1,
             CollectCards(crates[c], orca_class_name, 1, object_info_list))

NoObjectInfoWarning == "OrcaDecoder::get_object_info(): Warning: no object info"

get_object_info(h, orca_class_name) ==
    LET crates == h.ObjectInfo.Crates
        object_info_list == CollectCrates(crates, orca_class_name, 1, <<>>)
    IN  [header |-> [h EXCEPT !.ObjectInfo.Crates =
                        [c \in 1..Len(crates) |-> StampCrate(crates[c], orca_class_name)]],
         ret |-> Returned("get_object_info", object_info_list,
                          IF Len(object_info_list) = 0
                          THEN <<NoObjectInfoWarning>> ELSE <<>>)]

WithArg(r, arg) == [r EXCEPT !.arg = arg]

GetRunNumber ==
    /\ ret' = get_run_number(header_dict)
    /\ UNCHANGED <<big_endian, stream_kind, stream, pos, packets, header_dict, decoder>>

FlipDataIds ==
    /\ ret' = flip_data_ids(header_dict)
    /\ UNCHANGED <<big_endian, stream_kind, stream, pos, packets, header_dict, decoder>>

GetIdToDecoderNameDict ==
    /\ ret' = get_id_to_decoder_name_dict(header_dict)
    /\ UNCHANGED <<big_endian, stream_kind, stream, pos, packets, header_dict, decoder>>

GetObjectInfo(orca_class_name) ==
    LET r == get_object_info(header_dict, orca_class_name)
    IN  /\ header_dict' = r.header
        /\ ret' = WithArg(r.ret, orca_class_name)
        /\ UNCHANGED <<big_endian, stream_kind, stream, pos, packets, decoder>>

\* OrcaDecoder.set_header_dict(header_dict): self.header_dict is the header
\* object itself (has_header), self.object_info the list get_object_info
\* returns.
SetHeaderDict ==
    LET r == get_object_info(header_dict, decoder.orca_class_name)
    IN  /\ header_dict' = r.header
        /\ decoder' = [decoder EXCEPT !.has_header = TRUE,
                                      !.object_info = r.ret.value]
        /\ ret' = [WithArg(r.ret, decoder.orca_class_name) EXCEPT
                       !.fn = "set_header_dict", !.value = <<>>]
        /\ UNCHANGED <<big_endian, stream_kind, stream, pos, packets>>

\* OrcaDecoder.set_object_info(object_info): self.object_info = object_info,
\* whatever the caller passes, with or without a header set.  The lists
\* passed are the caller's own (no dict of the header is in them).
ObjectInfoArgs ==
    {<<>>, <<("Class Name" :> "ORCardA") @@ ("Card" :> 9) @@ ("Crate" :> 4)>>}

SetObjectInfo(object_info) ==
    /\ decoder' = [decoder EXCEPT !.object_info = object_info]
    /\ ret' = Returned("set_object_info", <<>>, <<>>)
    /\ UNCHANGED <<big_endian, stream_kind, stream, pos, packets, header_dict>>

(***************************************************************************)
(* The headers and streams the model starts from.                          *)
(***************************************************************************)
MaxClasses == 2
MaxSupers == 3
MaxLeaves == 3
MaxCrates == 2
MaxCards == 2
MaxChain == 3

ClassKeys == <<"ORClassA", "ORClassB", "ORClassC", "ORClassD">>
SuperKeys == <<"s1", "s2", "s3", "s4", "s5">>
DataIdVals == {262144, 524289}
DecoderNames == {"ORDecoderA", "ORDecoderB"}
ClassNames == {"ORCardA", "ORCardB"}
CrateNumbers == <<3, 0, 5, 1>>
RunNumbers == {7, 8}

Leaves == [dataId : DataIdVals, decoder : DecoderNames]

\* The dataDescription dicts: up to MaxClasses classes of up to MaxSupers
\* entries each, MaxLeaves entries in all.
RECURSIVE SumTo(_, _)
SumTo(sh, c) == IF c = 0 THEN 0 ELSE sh[c] + SumTo(sh, c - 1)

Shapes ==
    {sh \in UNION {[1..n -> 0..MaxSupers] : n \in 0..MaxClasses}
        : SumTo(sh, Len(sh)) <= MaxLeaves}

BuildDataDescription(sh, l) ==
    [c \in 1..Len(sh) |->
        [key |-> ClassKeys[c],
         val |-> [i \in 1..sh[c] |->
                     [key |-> SuperKeys[i], val |-> l[SumTo(sh, c - 1) + i]]]]]

Cards ==
    UNION {{[i \in 1..n |-> ("Class Name" :> cn[i]) @@ ("Card" :> i)]
            : cn \in [1..n -> ClassNames]} : n \in 0..MaxCards}

BuildCrates(cs) ==
    [c \in 1..Len(cs) |-> [CrateNumber |-> CrateNumbers[c], Cards |-> cs[c]]]

ChainEntries ==
    {("Run Control" :> [RunNumber |-> n]) : n \in RunNumbers}
        \cup {("Document Info" :> [documentName |-> "run"])}

SampleDataDescription ==
    <<[key |-> ClassKeys[1],
       val |-> <<[key |-> SuperKeys[1],
                  val |-> [dataId |-> 262144, decoder |-> "ORDecoderA"]]>>]>>

SampleCrates ==
    <<[CrateNumber |-> 3,
       Cards |-> <<("Class Name" :> "ORCardA") @@ ("Card" :> 1)>>]>>

SampleDataChain == <<("Run Control" :> [RunNumber |-> 7])>>

Header(dd, crates, chain) ==
    [dataDescription |-> dd, ObjectInfo |-> [Crates |-> crates, DataChain |-> chain]]

\* A header varies in its dataDescription, in its crates or in its DataChain.
IsInitialHeader(h) ==
    \/ \E sh \in Shapes : \E l \in [1..SumTo(sh, Len(sh)) -> Leaves] :
           h = Header(BuildDataDescription(sh, l), SampleCrates, SampleDataChain)
    \/ \E n \in 0..MaxCrates : \E cs \in [1..n -> Cards] :
           h = Header(SampleDataDescription, BuildCrates(cs), SampleDataChain)
    \/ \E n \in 0..MaxChain : \E ch \in [1..n -> ChainEntries] :
           h = Header(SampleDataDescription, SampleCrates, ch)

\* The streams: up to MaxWords 32-bit words, each (id << 18) | length, laid
\* out in the byte order of the host that wrote and reads the file, followed
\* by up to MaxTail bytes 0xFF.
IdVals == {1, 16383}
LengthVals == {0, 1, 2, 3}
WordVals == [id : IdVals, len : LengthVals]

to_bytes(word, be) ==
    LET le == <<word.len % 256,
                (word.len \div 256) % 256,
                (word.len \div 65536) + 4 * (word.id % 64),
                word.id \div 64>>
    IN  IF be THEN Reverse(le) ELSE le

RECURSIVE WordBytes(_, _, _)
WordBytes(ws, i, be) ==
    IF i > Len(ws) THEN <<>> ELSE to_bytes(ws[i], be) \o WordBytes(ws, i + 1, be)

WordSeqs == UNION {[1..n -> WordVals] : n \in 0..MaxWords}

Streams(be) ==
    {WordBytes(ws, 1, be) \o [i \in 1..t |-> 255] : ws \in WordSeqs, t \in 0..MaxTail}

EmptyHeader == Header(<<>>, <<>>, <<>>)

NoDecoder == [orca_class_name |-> "none", has_header |-> FALSE, object_info |-> <<>>]

InitPacket ==
    /\ big_endian \in BOOLEAN
    /\ stream_kind \in StreamKinds
    /\ stream \in Streams(big_endian)
    /\ pos = 0
    /\ packets = <<>>
    /\ header_dict = EmptyHeader
    /\ decoder = NoDecoder
    /\ ret = NoCall

NextPacket == GetNextPacket

SpecPacket == InitPacket /\ [][NextPacket]_vars

\* OrcaDecoder.__init__: object_info=[]; a subclass defines orca_class_name.
InitHeader ==
    /\ big_endian = FALSE
    /\ stream_kind = "BytesIO"
    /\ stream = <<>>
    /\ pos = 0
    /\ packets = <<>>
    /\ IsInitialHeader(header_dict)
    /\ decoder \in {[orca_class_name |-> cn, has_header |-> FALSE, object_info |-> <<>>]
                      : cn \in ClassNames}
    /\ ret = NoCall

NextHeader ==
    \/ GetRunNumber
    \/ FlipDataIds
    \/ GetIdToDecoderNameDict
    \/ \E cn \in ClassNames : GetObjectInfo(cn)
    \/ SetHeaderDict
    \/ \E object_info \in ObjectInfoArgs : SetObjectInfo(object_info)

SpecHeader == InitHeader /\ [][NextHeader]_vars

(***************************************************************************)
(* Properties of get_next_packet, checked under SpecPacket.  The leading   *)
(* word at the cursor is read here by arithmetic on its four bytes:        *)
(* word = (id << 18) | length  iff  length = word mod 2^18 and             *)
(* id = word div 2^18.                                                     *)
(***************************************************************************)
Max(a, b) == IF a > b THEN a ELSE b

Remaining == Len(stream) - pos

HeadDigits ==
    LET b == SubSeq(stream, pos + 1, pos + 4)
    IN  IF big_endian THEN Reverse(b) ELSE b

HeadLength == HeadDigits[1] + 256 * HeadDigits[2] + 65536 * (HeadDigits[3] % 4)

HeadId == (HeadDigits[3] \div 4) + 64 * HeadDigits[4]

\* C1: with the cursor at a leading word (id << 18) | length, length >= 1,
\* followed by at least (length - 1) * 4 bytes, get_next_packet returns id
\* and exactly those (length - 1) * 4 bytes, leaves the cursor right after
\* them, and the caller's packets grow in stream order.
C1_WellFormedPacketReturned ==
    [][(/\ Remaining >= 4
        /\ HeadLength >= 1
        /\ Remaining - 4 >= (HeadLength - 1) * 4)
       => /\ ret' = Returned("get_next_packet",
                        <<SubSeq(stream, pos + 5, pos + 4 * HeadLength), HeadId>>, <<>>)
          /\ pos' = pos + 4 * HeadLength
          /\ packets' = Append(packets, ret'.value)]_vars

\* Two packets came back in stream order: id 16383 with a 4-byte payload,
\* then id 1 with an empty payload.
C1_Witness ==
    /\ Len(packets) = 2
    /\ packets[1][2] = 16383 /\ Len(packets[1][1]) = 4
    /\ packets[1][1] = SubSeq(stream, 5, 8)
    /\ packets[2][2] = 1 /\ packets[2][1] = <<>>
    /\ pos = 12

\* C2: with zero bytes left at a packet boundary the outcome is the clean
\* end of the stream (the EOFError the function raises for "No more
\* data"), with 1 to 3 bytes left it is an error other than that one.
C2_CleanEndDistinctFromTruncation ==
    [][ret'.fn = "get_next_packet"
       => /\ Remaining = 0 => ret'.raised = "EOFError"
          /\ Remaining \in 1..3 => ret'.raised \notin {"none", "EOFError"}]_vars

\* C3: with the leading word read in full and fewer than
\* recordLengthWords*4 - 4 bytes after it, get_next_packet fails; it returns
\* no packet.
C3_ShortPayloadFails ==
    [][(/\ ret'.fn = "get_next_packet"
        /\ Remaining >= 4
        /\ Remaining - 4 < HeadLength * 4 - 4)
       => ret'.raised # "none"]_vars

\* C10: a call advances the cursor by the 4 bytes of the leading word plus
\* at most max(0, recordLengthWords*4 - 4) payload bytes, also when
\* recordLengthWords is 0.
C10_NoReadBeyondPacket ==
    [][(ret'.fn = "get_next_packet" /\ Remaining >= 4)
       => pos' - pos <= 4 + Max(0, HeadLength * 4 - 4)]_vars

(***************************************************************************)
(* Properties of the header helpers, checked under SpecHeader.             *)
(***************************************************************************)
DD == header_dict.dataDescription

LeafPos == UNION {{<<c, i>> : i \in 1..Len(DD[c].val)} : c \in 1..Len(DD)}

Before(p, q) == p[1] < q[1] \/ (p[1] = q[1] /\ p[2] < q[2])

DeclLeaf(p) == DD[p[1]].val[p[2]].val

DeclId(p) == DeclLeaf(p).dataId \div 262144

DeclIds == {DeclId(p) : p \in LeafPos}

\* The leaf entry walked last among those that decode to id.
LastPos(id) ==
    CHOOSE p \in LeafPos :
        DeclId(p) = id /\ \A q \in LeafPos : DeclId(q) = id => ~Before(p, q)

HasCollision ==
    \E p, q \in LeafPos :
        Before(p, q) /\ DeclId(p) = DeclId(q) /\ DeclLeaf(p).decoder # DeclLeaf(q).decoder

\* C4 as stated: the keys of the table are exactly the decoded identifiers
\* of the leaf entries, and every leaf entry's identifier is mapped to that
\* entry's decoder name.
C4_EveryLeafMappedToItsDecoder ==
    ret.fn = "get_id_to_decoder_name_dict"
    => /\ ret.raised = "none"
       /\ DOMAIN ret.value = DeclIds
       /\ \A p \in LeafPos : ret.value[DeclId(p)] = DeclLeaf(p).decoder

\* C4 amended: the keys of the table are exactly the decoded identifiers of
\* the leaf entries, and every identifier is mapped to the decoder name of
\* the leaf entry walked last among those that decode to it.
C4_LastLeafMappedToItsDecoder ==
    ret.fn = "get_id_to_decoder_name_dict"
    => /\ ret.raised = "none"
       /\ DOMAIN ret.value = DeclIds
       /\ \A id \in DeclIds : ret.value[id] = DeclLeaf(LastPos(id)).decoder

\* A table of two identifiers derived from a header in which two leaf
\* entries of different classes decode to one identifier with different
\* decoder names.
C4_Witness ==
    /\ ret.fn = "get_id_to_decoder_name_dict"
    /\ Cardinality(DOMAIN ret.value) = 2
    /\ \E p, q \in LeafPos :
          /\ p[1] < q[1]
          /\ DeclId(p) = DeclId(q)
          /\ DeclLeaf(p).decoder # DeclLeaf(q).decoder
          /\ q = LastPos(DeclId(q))
          /\ ret.value[DeclId(p)] = DeclLeaf(q).decoder

\* C5: when two leaf entries decode to one identifier with different
\* decoder names, the table keeps the name of the entry walked last and the
\* call surfaces the collision (an exception or a printed warning).
C5_CollisionSurfaced ==
    (ret.fn = "get_id_to_decoder_name_dict" /\ HasCollision)
    => /\ \A id \in DeclIds : ret.value[id] = DeclLeaf(LastPos(id)).decoder
       /\ (ret.raised # "none" \/ ret.printed # <<>>)

SuperKeysUpTo(c, n) == [j \in 1..n |-> DD[c].val[j].key]

\* C6 as stated: each identifier maps to its class name and the instance
\* names of that class up to and including the instance that declared it,
\* and no later one.
C6_CumulativeInstanceNames ==
    ret.fn = "flip_data_ids"
    => /\ ret.raised = "none"
       /\ DOMAIN ret.value = DeclIds
       /\ \A id \in DeclIds :
             LET p == LastPos(id)
             IN  ret.value[id] = <<DD[p[1]].key, SuperKeysUpTo(p[1], p[2])>>

\* C6 amended: each identifier maps to the name of the class that declared
\* it last and ALL the instance names of that class in declaration order,
\* those declared after the identifier's own instance included.
C6_AllInstanceNames ==
    ret.fn = "flip_data_ids"
    => /\ ret.raised = "none"
       /\ DOMAIN ret.value = DeclIds
       /\ \A id \in DeclIds :
             LET p == LastPos(id)
             IN  ret.value[id] = <<DD[p[1]].key, SuperKeysUpTo(p[1], Len(DD[p[1]].val))>>

\* A class of three instances whose first instance alone declares its
\* identifier: that identifier maps to all three instance names.
C6_Witness ==
    /\ ret.fn = "flip_data_ids"
    /\ \E c \in 1..Len(DD) :
          /\ Len(DD[c].val) = 3
          /\ LastPos(DeclId(<<c, 1>>)) = <<c, 1>>
          /\ ret.value[DeclId(<<c, 1>>)] = <<DD[c].key, <<"s1", "s2", "s3">>>>

Crates == header_dict.ObjectInfo.Crates

CardPos == UNION {{<<c, i>> : i \in 1..Len(Crates[c].Cards)} : c \in 1..Len(Crates)}

Matching(name) == {p \in CardPos : Crates[p[1]].Cards[p[2]]["Class Name"] = name}

Rank(p, name) == Cardinality({q \in Matching(name) : q = p \/ Before(q, p)})

\* C7: get_object_info returns exactly the cards whose "Class Name" is the
\* requested one, in crate-then-card order, each with "Crate" set to the
\* CrateNumber of its crate; with no such card it returns the empty list and
\* raises nothing.
C7_ObjectInfoInEncounterOrder ==
    [][ret'.fn = "get_object_info"
       => /\ ret'.raised = "none"
          /\ Len(ret'.value) = Cardinality(Matching(ret'.arg))
          /\ \A p \in Matching(ret'.arg) :
                ret'.value[Rank(p, ret'.arg)]
                    = ("Crate" :> Crates[p[1]].CrateNumber) @@ Crates[p[1]].Cards[p[2]]]_vars

\* Two cards of the requested class came back from two crates, in crate
\* order, while the first crate also holds a card of another class.
C7_Witness ==
    /\ ret.fn = "get_object_info"
    /\ Len(ret.value) = 2
    /\ ret.value[1]["Crate"] = 3 /\ ret.value[2]["Crate"] = 0
    /\ ret.value[1]["Card"] = 2
    /\ Len(Crates) = 2
    /\ Crates[1].Cards[1]["Class Name"] # ret.arg

Chain == header_dict.ObjectInfo.DataChain

WithRunControl == {i \in 1..Len(Chain) : "Run Control" \in DOMAIN Chain[i]}

\* C8: get_run_number returns the RunNumber of the first DataChain entry
\* that contains "Run Control", and raises ValueError when there is none.
C8_FirstRunNumber ==
    ret.fn = "get_run_number"
    => IF WithRunControl = {}
       THEN ret.raised = "ValueError"
       ELSE /\ ret.raised = "none"
            /\ \E i \in WithRunControl :
                  /\ \A j \in WithRunControl : i <= j
                  /\ ret.value = Chain[i]["Run Control"].RunNumber

\* The run number of the second entry came back: the first entry has no
\* "Run Control", the third has one with another run number.
C8_Witness ==
    /\ ret.fn = "get_run_number"
    /\ WithRunControl = {2, 3}
    /\ Chain[2]["Run Control"].RunNumber # Chain[3]["Run Control"].RunNumber
    /\ ret.value = Chain[2]["Run Control"].RunNumber

\* C9: no call changes the header.
C9_HeaderImmutable == [][header_dict' = header_dict]_vars

====
